---------------------------- MODULE Spec2Model ----------------------------
(***************************************************************************)
(* Model of the Schedule I world's access logic:                           *)
(*   worlds/Schedule_I/rules.py    requirement compiler, rule binder,      *)
(*                                 completion selector                     *)
(*   worlds/Schedule_I/regions.py  graph builder                           *)
(*   worlds/Schedule_I/json_data.py  the tables the two read               *)
(*                                                                         *)
(* Python closures are modelled as records holding what the closure        *)
(* captured; calling a closure is an operator applied to such a record.    *)
(* A Python exception leaving a function is modelled as a record or a      *)
(* program position carrying the exception's name.                         *)
(***************************************************************************)
EXTENDS Integers, Sequences, FiniteSets, TLC

VARIABLES
    pc,               \* position of the run in the pipeline of the specification
    options,          \* world.options: toggle name -> BOOLEAN
    state,            \* CollectionState.prog_items[player]: item name -> copies held
    check_in,         \* (method_name, value) handed to build_requirement_check
    check_fn,         \* the closure build_requirement_check returned
    requirements,     \* the requirement tree handed to build_rule_from_requirements
    use_or_logic,     \* the combinator flag handed to build_rule_from_requirements
    rule,             \* the closure build_rule_from_requirements returned
    built_options,    \* history: the value of options when rule was built
    result,           \* what the last call of a closure returned
    region_data,      \* Schedule1RegionData.regions, in dict order
    graph_status,     \* how create_and_connect_regions ended
    regions,          \* world.multiworld.regions of the player, in creation order
    entrances,        \* the Entrance objects of the player, in creation order
    location_data,    \* Schedule1LocationData.locations, in dict order
    world_locations,  \* names of the Location objects the world holds
    location_rules,   \* location name -> access_rule set by set_rule
    goal,             \* world.options.goal
    completion        \* world.multiworld.completion_condition[player]

vars == <<pc, options, state, check_in, check_fn, requirements, use_or_logic, rule,
          built_options, result, region_data, graph_status, regions, entrances,
          location_data, world_locations, location_rules, goal, completion>>

-----------------------------------------------------------------------------
(* Bounds of the model *)

\* most copies of one item a collection state holds
MaxCount == 2
\* longest list or dict given as a method argument
MaxLen == 2

\* the capability names the requirement data refer to
Items == {"A", "B"}
\* the two capabilities the completion condition refers to
GoalItems == {"Cartel Defeated", "Networth Goal Reached"}

None == "None"

-----------------------------------------------------------------------------
(* Sequence helpers *)

Range(s) == {s[i] : i \in DOMAIN s}

SeqsUpTo(S, n) == UNION {[1..k -> S] : k \in 0..n}

-----------------------------------------------------------------------------
(* The host's collection state: the five query primitives rules.py calls *)

Count(st, item) == IF item \in DOMAIN st THEN st[item] ELSE 0

has(st, item) == Count(st, item) >= 1

has_any(st, items) == \E i \in DOMAIN items : Count(st, items[i]) >= 1

has_all(st, items) == \A i \in DOMAIN items : Count(st, items[i]) >= 1

\* counts is a dict, as the sequence of its (key, value) pairs
has_all_counts(st, counts) ==
    \A i \in DOMAIN counts : Count(st, counts[i][1]) >= counts[i][2]

has_from_list(st, keys, count) ==
    Cardinality({k \in Range(keys) : Count(st, k) >= 1}) >= count

-----------------------------------------------------------------------------
(* JSON values of the check sets.  One record shape carries every argument *)
(* shape: name (a string), elems (a list whose elements are strings or     *)
(* lists of strings), dict (the (key, value) pairs in order).              *)

StrElem(n) == [isList |-> FALSE, name |-> n, list |-> <<>>]
ListElem(l) == [isList |-> TRUE, name |-> "", list |-> l]

Entry(m, n, e, d) == [method |-> m, name |-> n, elems |-> e, dict |-> d]

\* the closure a check compiles to: the primitive and the captured defaults
Closure(f, n, i, d, c) == [fn |-> f, name |-> n, items |-> i, dict |-> d, count |-> c]

ConstTrue == Closure("true", "", <<>>, <<>>, 0)
Raised(exc) == Closure(exc, "", <<>>, <<>>, 0)
IsRaised(f) == f.fn \in {"IndexError", "KeyError", "AssertionError"}

\* the strings of a list all of whose elements are strings
Strings(elems) == [i \in DOMAIN elems |-> elems[i].name]

\* rules.py:47   items = value[0] if isinstance(value[0], list) else value
\* value[0] of an empty list raises IndexError
has_any_items(elems) ==
    IF Len(elems) = 0 THEN Raised("IndexError")
    ELSE IF elems[1].isList THEN Closure("has_any", "", elems[1].list, <<>>, 0)
    ELSE Closure("has_any", "", Strings(elems), <<>>, 0)

\* rules.py:37-65
build_requirement_check(method_name, value) ==
    IF method_name = "has" THEN Closure("has", value.name, <<>>, <<>>, 0)
    ELSE IF method_name = "has_any" THEN has_any_items(value.elems)
    ELSE IF method_name = "has_all" THEN Closure("has_all", "", Strings(value.elems), <<>>, 0)
    ELSE IF method_name = "has_all_counts" THEN Closure("has_all_counts", "", <<>>, value.dict, 0)
    ELSE IF method_name = "has_from_list" THEN
        IF Len(value.dict) = 0 THEN Raised("IndexError")
        ELSE Closure("has_from_list", "",
                     [i \in DOMAIN value.dict |-> value.dict[i][1]], <<>>,
                     value.dict[1][2])
    ELSE ConstTrue

\* calling the closure of a check on a collection state
CallCheck(f, st) ==
    CASE f.fn = "has" -> has(st, f.name)
      [] f.fn = "has_any" -> has_any(st, f.items)
      [] f.fn = "has_all" -> has_all(st, f.items)
      [] f.fn = "has_all_counts" -> has_all_counts(st, f.dict)
      [] f.fn = "has_from_list" -> has_from_list(st, f.items, f.count)
      [] OTHER -> TRUE

-----------------------------------------------------------------------------
(* Option lookup and the rule compiler *)

\* the seven toggles check_option_enabled knows
OptionNames == {"randomize_customers", "randomize_dealers", "randomize_suppliers",
                "randomize_level_unlocks", "randomize_cartel_influence",
                "randomize_business_properties", "randomize_drug_making_properties"}

AllOff == [o \in OptionNames |-> FALSE]

\* mutant: option_map.get(option_name, True)
check_option_enabled_default_true(opts, option_name) ==
    IF option_name \in OptionNames THEN opts[option_name] ELSE TRUE

\* mutant: the randomize_suppliers key reads world.options.randomize_customers
check_option_enabled_wrong_toggle(opts, option_name) ==
    IF option_name = "randomize_suppliers" THEN opts["randomize_customers"]
    ELSE IF option_name \in OptionNames THEN opts[option_name] ELSE FALSE

\* rules.py:23-34   bool(option_map.get(option_name, False))
check_option_enabled(opts, option_name) ==
    IF option_name \in OptionNames THEN opts[option_name] ELSE FALSE

\* a requirement tree: True, some other non-dict value, or a dict of gates
\* a gate: option name -> check set; the check set is a dict (isdict) or not
Gate(o, d, c) == [option_name |-> o, isdict |-> d, checks |-> c]
Tree(k, g) == [kind |-> k, gates |-> g]
Always == Tree("true", <<>>)

\* the closure a tree compiles to
Rule(k, cc, m) == [kind |-> k, condition_checks |-> cc, use_or_logic |-> m]
LambdaTrue == Rule("lambda_true", <<>>, FALSE)
RuleRaised(exc) == Rule(exc, <<>>, FALSE)
RuleIsRaised(r) == r.kind \in {"IndexError", "KeyError", "AssertionError"}

\* rules.py:92-95   the check functions of one gate
CheckFunctions(checks) ==
    [i \in DOMAIN checks |-> build_requirement_check(checks[i].method, checks[i])]

\* rules.py:88-98   the (option_name, check_functions) pairs, in dict order
RECURSIVE ConditionChecks(_)
ConditionChecks(gates) ==
    IF gates = <<>> THEN <<>>
    ELSE LET g == Head(gates)
             fs == CheckFunctions(g.checks)
         IN  IF g.isdict /\ fs # <<>>
             THEN <<[option_name |-> g.option_name, check_functions |-> fs]>>
                  \o ConditionChecks(Tail(gates))
             ELSE ConditionChecks(Tail(gates))

\* the exception building the checks raises, if one does
BuildRaises(gates) ==
    \E i \in DOMAIN gates : gates[i].isdict /\
        \E j \in DOMAIN gates[i].checks :
            IsRaised(build_requirement_check(gates[i].checks[j].method, gates[i].checks[j]))

\* rules.py:68-124
build_rule_from_requirements(reqs, use_or) ==
    IF reqs.kind = "true" THEN LambdaTrue
    ELSE IF reqs.kind # "dict" THEN LambdaTrue
    ELSE IF BuildRaises(reqs.gates) THEN RuleRaised("IndexError")
    ELSE IF ConditionChecks(reqs.gates) = <<>> THEN LambdaTrue
    ELSE Rule("rule_function", ConditionChecks(reqs.gates), use_or)

\* rules.py:110   all(check(state) for check in check_functions)
AllChecks(fs, st) == \A i \in DOMAIN fs : CallCheck(fs[i], st)

\* the checks all() calls before it stops: those up to the first false one
ChecksCalled(fs, st) ==
    {i \in DOMAIN fs : \A j \in 1..(i - 1) : CallCheck(fs[j], st)}

\* rules.py:106-111   the results list of one call
Results(cc, opts, st) ==
    LET on == {i \in DOMAIN cc : check_option_enabled(opts, cc[i].option_name)}
    IN  {<<i, AllChecks(cc[i].check_functions, st)>> : i \in on}

\* mutant: any() and all() exchanged
rule_function_swapped(r, opts, st) ==
    IF r.kind = "lambda_true" THEN TRUE
    ELSE LET results == Results(r.condition_checks, opts, st)
         IN  IF results = {} THEN TRUE
             ELSE IF r.use_or_logic THEN \A x \in results : x[2]
             ELSE \E x \in results : x[2]

\* rules.py:103-122   rule_function(state), and the constant lambdas
rule_function(r, opts, st) ==
    IF r.kind = "lambda_true" THEN TRUE
    ELSE LET results == Results(r.condition_checks, opts, st)
         IN  IF results = {} THEN TRUE
             ELSE IF r.use_or_logic THEN \E x \in results : x[2]
             ELSE \A x \in results : x[2]

\* the (option name, check index) pairs one call of the rule evaluates
rule_function_calls(r, opts, st) ==
    LET cc == r.condition_checks
        on == {i \in DOMAIN cc : check_option_enabled(opts, cc[i].option_name)}
    IN  UNION {{<<cc[i].option_name, j>> : j \in ChecksCalled(cc[i].check_functions, st)} :
               i \in on}

NoResult == [called |-> FALSE, value |-> FALSE, calls |-> {}]
CallOf(r, opts, st) ==
    [called |-> TRUE, value |-> rule_function(r, opts, st),
     calls |-> rule_function_calls(r, opts, st)]

-----------------------------------------------------------------------------
(* Variables a specification does not use keep these values *)

CheckIdle == check_in = None /\ check_fn = None
CompileIdle == requirements = None /\ use_or_logic = FALSE /\ rule = None
                /\ built_options = None
GraphIdle == region_data = <<>> /\ graph_status = None /\ regions = <<>> /\ entrances = <<>>
LocationIdle == location_data = <<>> /\ world_locations = {} /\ location_rules = <<>>
GoalIdle == goal = 0 /\ completion = None

checkVars == <<check_in, check_fn>>
compileVars == <<requirements, use_or_logic, rule, built_options>>
graphVars == <<region_data, graph_status, regions, entrances>>
locationVars == <<location_data, world_locations, location_rules>>
goalVars == <<goal, completion>>

EmptyState(items) == [i \in items |-> 0]

\* the holder collects one more copy of an item; what was returned before is stale
Collect ==
    /\ \E i \in DOMAIN state :
          /\ state[i] < MaxCount
          /\ state' = [state EXCEPT ![i] = @ + 1]
    /\ result' = NoResult
    /\ UNCHANGED <<pc, options, checkVars, compileVars, graphVars, locationVars, goalVars>>

-----------------------------------------------------------------------------
(* Specification SpecCheck: build_requirement_check on one (method, value) *)

StrLists == {[i \in DOMAIN l |-> StrElem(l[i])] : l \in SeqsUpTo(Items, MaxLen)}
NestedLists ==
    {[i \in DOMAIN l |-> ListElem(l[i])] :
        l \in SeqsUpTo(SeqsUpTo(Items, MaxLen), MaxLen) \ {<<>>}}
Dicts == {d \in SeqsUpTo(Items \X (1..MaxCount), MaxLen) :
            \A i, j \in DOMAIN d : i # j => d[i][1] # d[j][1]}

CheckInputs ==
    {Entry("has", n, <<>>, <<>>) : n \in Items}
    \cup {Entry("has_any", "", e, <<>>) : e \in StrLists \cup NestedLists}
    \cup {Entry("has_all", "", e, <<>>) : e \in StrLists}
    \cup {Entry(m, "", <<>>, d) : m \in {"has_all_counts", "has_from_list"}, d \in Dicts}
    \cup {Entry("has_some", "A", <<>>, <<>>)}

CheckInit ==
    /\ pc = "init"
    /\ options = AllOff
    /\ state = EmptyState(Items)
    /\ check_in \in CheckInputs
    /\ check_fn = None
    /\ result = NoResult
    /\ CompileIdle /\ GraphIdle /\ LocationIdle /\ GoalIdle

\* check_func = build_requirement_check(world, method_name, value)
BuildCheck ==
    /\ pc = "init"
    /\ check_fn' = build_requirement_check(check_in.method, check_in)
    /\ pc' = IF IsRaised(check_fn') THEN "raised" ELSE "built"
    /\ UNCHANGED <<options, state, check_in, result, compileVars, graphVars,
                   locationVars, goalVars>>

\* check(state)
CallBuiltCheck ==
    /\ pc = "built"
    /\ result' = [called |-> TRUE, value |-> CallCheck(check_fn, state), calls |-> {}]
    /\ UNCHANGED <<pc, options, state, checkVars, compileVars, graphVars,
                   locationVars, goalVars>>

CheckNext == BuildCheck \/ CallBuiltCheck \/ Collect

SpecCheck == CheckInit /\ [][CheckNext]_vars

-----------------------------------------------------------------------------
(* Specification SpecCompile: build_rule_from_requirements on one tree,    *)
(* then calls of the rule while items are collected and options change     *)

\* most gates in a requirement tree
MaxGates == 2

\* option names the trees use: two toggles and a name that is no toggle
GateNames == <<"randomize_customers", "randomize_suppliers", "randomize_everything">>

HasA == Entry("has", "A", <<>>, <<>>)
HasB == Entry("has", "B", <<>>, <<>>)
HasAnyB == Entry("has_any", "", <<ListElem(<<"B">>), ListElem(<<"A">>)>>, <<>>)
HasAnyEmpty == Entry("has_any", "", <<>>, <<>>)
Unknown == Entry("has_some", "B", <<>>, <<>>)

\* the check sets the trees use; the last stands for a gate whose value is no dict
CheckSets == {<<>>, <<HasA>>, <<HasB>>, <<HasA, HasAnyB>>, <<Unknown>>, <<HasAnyEmpty>>}
GateValues == {[isdict |-> TRUE, checks |-> c] : c \in CheckSets}
              \cup {[isdict |-> FALSE, checks |-> <<>>]}

\* the elements of a set of indices in increasing order
RECURSIVE Sorted(_)
Sorted(S) ==
    IF S = {} THEN <<>>
    ELSE LET m == CHOOSE x \in S : \A y \in S : x <= y
         IN  <<m>> \o Sorted(S \ {m})

GateSeqs ==
    UNION {LET idx == Sorted(S)
           IN  {[i \in DOMAIN idx |-> Gate(GateNames[idx[i]], v[i].isdict, v[i].checks)] :
                    v \in [DOMAIN idx -> GateValues]} :
           S \in {T \in SUBSET DOMAIN GateNames : Cardinality(T) <= MaxGates}}

Trees == {Always, Tree("false", <<>>)} \cup {Tree("dict", g) : g \in GateSeqs}

CompileInit ==
    /\ pc = "init"
    /\ options = AllOff
    /\ state = EmptyState(Items)
    /\ requirements \in Trees
    /\ use_or_logic \in BOOLEAN
    /\ rule = None
    /\ built_options = None
    /\ result = NoResult
    /\ CheckIdle /\ GraphIdle /\ LocationIdle /\ GoalIdle

\* the configuration changes a toggle the trees name
SetOption ==
    /\ \E o \in Range(GateNames) \cap OptionNames :
          options' = [options EXCEPT ![o] = ~@]
    /\ result' = NoResult
    /\ UNCHANGED <<pc, state, checkVars, compileVars, graphVars, locationVars, goalVars>>

\* rule = build_rule_from_requirements(world, requirements, use_or_logic)
BuildRule ==
    /\ pc = "init"
    /\ rule' = build_rule_from_requirements(requirements, use_or_logic)
    /\ built_options' = options
    /\ pc' = IF RuleIsRaised(rule') THEN "raised" ELSE "built"
    /\ UNCHANGED <<options, state, requirements, use_or_logic, result, checkVars,
                   graphVars, locationVars, goalVars>>

\* rule(state)
CallRule ==
    /\ pc = "built"
    /\ result' = CallOf(rule, options, state)
    /\ UNCHANGED <<pc, options, state, checkVars, compileVars, graphVars,
                   locationVars, goalVars>>

CompileNext == SetOption \/ BuildRule \/ CallRule \/ Collect

SpecCompile == CompileInit /\ [][CompileNext]_vars

-----------------------------------------------------------------------------
(* Reference semantics the claims are stated against, written from the     *)
(* data model of the specification and independent of the compiler above   *)

Owns(st, n) == n \in DOMAIN st /\ st[n] > 0

RefToggles == {"randomize_customers", "randomize_dealers", "randomize_suppliers",
               "randomize_level_unlocks", "randomize_cartel_influence",
               "randomize_business_properties", "randomize_drug_making_properties"}

RefEnabled(opts, name) == name \in RefToggles /\ opts[name]

RefHasAny(elems, st) ==
    IF elems # <<>> /\ elems[1].isList
    THEN \E i \in DOMAIN elems[1].list : Owns(st, elems[1].list[i])
    ELSE \E i \in DOMAIN elems : Owns(st, elems[i].name)

RefCheck(e, st) ==
    CASE e.method = "has" -> Owns(st, e.name)
      [] e.method = "has_any" -> RefHasAny(e.elems, st)
      [] e.method = "has_all" -> \A i \in DOMAIN e.elems : Owns(st, e.elems[i].name)
      [] e.method = "has_all_counts" ->
            \A i \in DOMAIN e.dict : e.dict[i][1] \in DOMAIN st /\ st[e.dict[i][1]] >= e.dict[i][2]
      [] OTHER -> TRUE

RefGate(g, st) == \A j \in DOMAIN g.checks : RefCheck(g.checks[j], st)

\* the reference value as the claim words it
RefValue(reqs, opts, use_or, st) ==
    LET on == {i \in DOMAIN reqs.gates : RefEnabled(opts, reqs.gates[i].option_name)}
    IN  IF use_or THEN \E i \in on : RefGate(reqs.gates[i], st)
        ELSE \A i \in on : RefGate(reqs.gates[i], st)

\* the reference value with the two cases the code treats otherwise: gates
\* whose check set is empty or no mapping are dropped, and when no gate is
\* left the value is true in both modes
RefValueKept(reqs, opts, use_or, st) ==
    LET on == {i \in DOMAIN reqs.gates :
                  /\ RefEnabled(opts, reqs.gates[i].option_name)
                  /\ reqs.gates[i].isdict
                  /\ reqs.gates[i].checks # <<>>}
    IN  IF on = {} THEN TRUE
        ELSE IF use_or THEN \E i \in on : RefGate(reqs.gates[i], st)
        ELSE \A i \in on : RefGate(reqs.gates[i], st)

IsConditionGroup(reqs) ==
    reqs.kind = "dict" /\ \A i \in DOMAIN reqs.gates : reqs.gates[i].isdict

Evaluated == pc = "built" /\ result.called

-----------------------------------------------------------------------------
(* Claims checked under SpecCompile and SpecCheck *)

Pruned(reqs, opts) ==
    Tree(reqs.kind, SelectSeq(reqs.gates, LAMBDA g : RefEnabled(opts, g.option_name)))

\* C2: a gate whose option is disabled or is no recognised toggle contributes
\* nothing (the predicate equals the one compiled from the tree without such
\* gates) and none of its checks is called; with no gate enabled the predicate
\* is true in both modes, for every collection state.
C2_DisabledGatesContributeNothing ==
    Evaluated =>
        /\ \A c \in result.calls : RefEnabled(options, c[1])
        /\ result.value =
              rule_function(build_rule_from_requirements(Pruned(requirements, options),
                                                         use_or_logic), options, state)
        /\ (\A i \in DOMAIN requirements.gates :
                ~RefEnabled(options, requirements.gates[i].option_name))
             => result.value

\* C2 witness: an OR-mode rule of two gates with a false check, one gate named
\* by no toggle, was called with no gate enabled on the empty collection
C2_Witness ==
    /\ Evaluated /\ use_or_logic /\ result.value
    /\ state = EmptyState(Items)
    /\ Len(requirements.gates) = 2
    /\ \A i \in DOMAIN requirements.gates :
          ~RefEnabled(options, requirements.gates[i].option_name)
    /\ \E i \in DOMAIN requirements.gates : requirements.gates[i].option_name \notin RefToggles
    /\ \E i \in DOMAIN requirements.gates :
          requirements.gates[i].checks # <<>> /\ ~RefGate(requirements.gates[i], state)

\* whether the gates of the tree read the same option values now as at construction
SameGateOptions ==
    \A i \in DOMAIN requirements.gates :
        RefEnabled(options, requirements.gates[i].option_name)
            = RefEnabled(built_options, requirements.gates[i].option_name)

C10_HasAnyNeverRaises ==
    (check_in.method = "has_any") =>
        /\ pc # "raised"
        /\ (pc = "built" /\ result.called) => result.value = RefHasAny(check_in.elems, state)

-----------------------------------------------------------------------------
(* Specification SpecGraph: create_and_connect_regions on one region table, *)
(* then set_all_entrance_rules                                              *)

\* most regions in the region table
MaxRegions == 2
\* most connections in the region table, all regions together
MaxConns == 3

\* the region names the tables use, in the order the tables list them
RegionNames == <<"A", "A to A", "B">>

\* the requirement trees the connections use
TreeA == Tree("dict", <<Gate("randomize_customers", TRUE, <<HasA>>)>>)
TreeBad == Tree("dict", <<Gate("randomize_dealers", TRUE, <<HasAnyEmpty>>)>>)
ConnTrees == {Always, TreeA, TreeBad}

\* json_data.py:38-41   RegionData
RegionData(n, c) == [name |-> n, connections |-> c]
Connection(t, r) == [target |-> t, requirements |-> r]

ConnValues == {Connection(t, r) : t \in Range(RegionNames), r \in ConnTrees}

\* the connections dicts of k entries, for each k: distinct targets, any order
ConnDicts ==
    [k \in 0..MaxConns |->
        {c \in [1..k -> ConnValues] : \A i, j \in DOMAIN c : i # j => c[i].target # c[j].target}]

\* json_data.py:99-108   the tables over the region names chosen by idx whose
\* regions have lens[i] connections each (RegionNames holds three names)
RegionTables(idx, lens) ==
    LET name(i) == RegionNames[idx[i]]
    IN  CASE Len(idx) = 0 -> {<<>>}
          [] Len(idx) = 1 -> {<<RegionData(name(1), c1)>> : c1 \in ConnDicts[lens[1]]}
          [] Len(idx) = 2 ->
                {<<RegionData(name(1), c1), RegionData(name(2), c2)>> :
                    c1 \in ConnDicts[lens[1]], c2 \in ConnDicts[lens[2]]}
          [] OTHER ->
                {<<RegionData(name(1), c1), RegionData(name(2), c2), RegionData(name(3), c3)>> :
                    c1 \in ConnDicts[lens[1]], c2 \in ConnDicts[lens[2]],
                    c3 \in ConnDicts[lens[3]]}

DeclaredChoices ==
    {Sorted(S) : S \in {T \in SUBSET DOMAIN RegionNames : Cardinality(T) <= MaxRegions}}

RECURSIVE SumTo(_, _)
SumTo(f, n) == IF n = 0 THEN 0 ELSE f[n] + SumTo(f, n - 1)

\* the numbers of connections of n regions: at most MaxConns in all
ConnCounts(n) == {l \in [1..n -> 0..MaxConns] : SumTo(l, n) <= MaxConns}

\* mutant: the two names exchanged in the f-string
EntranceName_swapped(region_name, connected_region_name) ==
    connected_region_name \o " to " \o region_name

\* regions.py:51, rules.py:135, rules.py:145   f"{region_name} to {connected_region_name}"
EntranceName(region_name, connected_region_name) ==
    region_name \o " to " \o connected_region_name

\* the (region, connection) pairs in the order the nested loops visit them
RECURSIVE Flat(_)
Flat(table) ==
    IF table = <<>> THEN <<>>
    ELSE LET r == Head(table)
         IN  [i \in DOMAIN r.connections |->
                 [source |-> r.name, target |-> r.connections[i].target,
                  requirements |-> r.connections[i].requirements]]
             \o Flat(Tail(table))

\* the host's Entrance object
Entrance(n, p, c, r) ==
    [name |-> n, parent_region |-> p, connected_region |-> c, access_rule |-> r]

GraphInit ==
    /\ pc = "init"
    /\ options = AllOff
    /\ state = EmptyState(Items)
    /\ result = NoResult
    /\ \E idx \in DeclaredChoices : \E lens \in ConnCounts(Len(idx)) :
          region_data \in RegionTables(idx, lens)
    /\ graph_status = None
    /\ regions = <<>>
    /\ entrances = <<>>
    /\ CheckIdle /\ CompileIdle /\ LocationIdle /\ GoalIdle

\* regions.py:25-34   create_all_regions
CreateAllRegions ==
    /\ pc = "init"
    /\ regions' = regions \o [i \in DOMAIN region_data |-> region_data[i].name]
    /\ pc' = "created"
    /\ UNCHANGED <<options, state, result, region_data, graph_status, entrances,
                   checkVars, compileVars, locationVars, goalVars>>

\* mutant: regions_dict.get(connected_region_name), which never raises
TargetMissing_never(regions_dict, connected_region_name) == FALSE

\* regions.py:50   regions_dict[connected_region_name] raises KeyError
TargetMissing(regions_dict, connected_region_name) ==
    connected_region_name \notin regions_dict

\* what stops the loop of connect_regions at connection k, if anything: a
\* target that is no key of regions_dict, or (asserts) the host's assertion
\* that no entrance of that name is registered yet
StopsAt(flat, regions_dict, asserts, k) ==
    IF TargetMissing(regions_dict, flat[k].target) THEN "KeyError"
    ELSE IF asserts /\ \E j \in 1..(k - 1) :
                EntranceName(flat[j].source, flat[j].target)
                    = EntranceName(flat[k].source, flat[k].target)
         THEN "AssertionError"
    ELSE None

\* regions.py:37-52   connect_regions.  The host registers entrances by name
\* and asserts the name is new; with assertions stripped the later entrance
\* replaces the earlier one in the name cache.  Both outcomes are modelled.
ConnectRegions ==
    /\ pc = "created"
    /\ \E asserts \in BOOLEAN :
       \E flat \in {Flat(region_data)} :
       \E regions_dict \in {{region_data[i].name : i \in DOMAIN region_data} \cap Range(regions)} :
       \E stop \in {[k \in DOMAIN flat |-> StopsAt(flat, regions_dict, asserts, k)]} :
       \E stops \in {{k \in DOMAIN flat : stop[k] # None}} :
       \E first \in {IF stops = {} THEN Len(flat) + 1
                      ELSE CHOOSE k \in stops : \A j \in stops : k <= j} :
          /\ entrances' = entrances \o
                [k \in 1..(first - 1) |->
                    Entrance(EntranceName(flat[k].source, flat[k].target),
                             flat[k].source, flat[k].target, LambdaTrue)]
          /\ graph_status' = IF stops = {} THEN "returned" ELSE stop[first]
    /\ pc' = "wired"
    /\ UNCHANGED <<options, state, result, region_data, regions,
                   checkVars, compileVars, locationVars, goalVars>>

\* world.get_entrance(entrance_name): the entrance the name cache holds, the
\* last one registered under the name; 0 stands for KeyError
get_entrance(ents, entrance_name) ==
    LET named == {e \in DOMAIN ents : ents[e].name = entrance_name}
    IN  IF named = {} THEN 0 ELSE CHOOSE e \in named : \A f \in named : f <= e

\* rules.py:144-151   the requirements compiled for the connection visited k-th
\* mutant: the loop variable is read after the loop ended
RuleRequirements_last(flat, k) == flat[Len(flat)].requirements

RuleRequirements(flat, k) == flat[k].requirements

\* the last connection visited before the loop stopped that set the rule of
\* entrance e, 0 if none did
LastSetter(ent, first, e) ==
    LET setters == {k \in 1..(first - 1) : ent[k] = e}
    IN  IF setters = {} THEN 0 ELSE CHOOSE k \in setters : \A j \in setters : j <= k

\* rules.py:127-152   set_all_entrance_rules
SetAllEntranceRules ==
    /\ pc \in {"created", "wired"}
    /\ \E flat \in {Flat(region_data)} :
       \E ent \in {[k \in DOMAIN flat |->
                      get_entrance(entrances, EntranceName(flat[k].source, flat[k].target))]} :
       \E new \in {[k \in DOMAIN flat |->
                      build_rule_from_requirements(RuleRequirements(flat, k), FALSE)]} :
       \E raises \in {{k \in DOMAIN flat : ent[k] # 0 /\ RuleIsRaised(new[k])}} :
       \E first \in {IF raises = {} THEN Len(flat) + 1
                      ELSE CHOOSE k \in raises : \A j \in raises : k <= j} :
       \E last \in {[e \in DOMAIN entrances |-> LastSetter(ent, first, e)]} :
          /\ entrances' =
                [e \in DOMAIN entrances |->
                    IF last[e] = 0 THEN entrances[e]
                    ELSE [entrances[e] EXCEPT !.access_rule = new[last[e]]]]
          /\ pc' = IF raises = {} THEN "rules_set" ELSE "rules_raised"
    /\ UNCHANGED <<options, state, result, region_data, graph_status, regions,
                   checkVars, compileVars, locationVars, goalVars>>

GraphNext == CreateAllRegions \/ ConnectRegions \/ SetAllEntranceRules

SpecGraph == GraphInit /\ [][GraphNext]_vars

-----------------------------------------------------------------------------
(* Claims checked under SpecGraph *)

Declared == {region_data[i].name : i \in DOMAIN region_data}
Conns == Flat(region_data)
AllTargetsDeclared == \A k \in DOMAIN Conns : Conns[k].target \in Declared
Undeclared == {k \in DOMAIN Conns : Conns[k].target \notin Declared}
ConnectActed == pc \in {"wired", "rules_set", "rules_raised"} /\ graph_status # None

\* the name the claims give the edge of a connection
EdgeName(c) == c.source \o " to " \o c.target

\* no two declared connections share their edge name
EdgeNamesDistinct ==
    \A j, k \in DOMAIN Conns : j # k => EdgeName(Conns[j]) # EdgeName(Conns[k])

OneNodePerRegion ==
    /\ \A n \in Declared : Cardinality({i \in DOMAIN regions : regions[i] = n}) = 1
    /\ Range(regions) \subseteq Declared

OneEdgePerConnection ==
    \A k \in DOMAIN Conns :
        LET named == {e \in DOMAIN entrances : entrances[e].name = EdgeName(Conns[k])}
        IN  /\ Cardinality(named) = 1
            /\ \A e \in named : /\ entrances[e].parent_region = Conns[k].source
                                 /\ entrances[e].connected_region = Conns[k].target

NoOtherEdge ==
    \A e \in DOMAIN entrances :
        \E k \in DOMAIN Conns : /\ entrances[e].parent_region = Conns[k].source
                                 /\ entrances[e].connected_region = Conns[k].target
                                 /\ entrances[e].name = EdgeName(Conns[k])

NodesBeforeEdges == entrances # <<>> => OneNodePerRegion

\* C4 (as stated): after create_and_connect_regions on any table with unique
\* region names whose targets are all declared, there is exactly one node per
\* region name and, per declared connection, exactly one edge named
\* "<source> to <target>", from source to target; no other edge exists, and
\* all nodes exist before the first edge.
C4_GraphLawAsStated ==
    /\ NodesBeforeEdges
    /\ (ConnectActed /\ AllTargetsDeclared)
          => OneNodePerRegion /\ OneEdgePerConnection /\ NoOtherEdge

\* C4 (amended): the same for any such table no two of whose declared
\* connections yield the same edge name; construction then returns normally.
C4_GraphLawForDistinctEdgeNames ==
    /\ NodesBeforeEdges
    /\ (ConnectActed /\ AllTargetsDeclared /\ EdgeNamesDistinct)
          => /\ graph_status = "returned"
             /\ OneNodePerRegion /\ OneEdgePerConnection /\ NoOtherEdge

\* C4 witness: a graph of two regions and three connections, a self-loop
\* among them, was built
C4_Witness ==
    /\ ConnectActed /\ AllTargetsDeclared /\ EdgeNamesDistinct
    /\ Len(regions) = 2 /\ Len(entrances) = 3
    /\ \E e \in DOMAIN entrances : entrances[e].parent_region = entrances[e].connected_region

EdgesOf(c) ==
    {e \in DOMAIN entrances : /\ entrances[e].parent_region = c.source
                              /\ entrances[e].connected_region = c.target}

EachEdgeHasItsOwnRule ==
    \A k \in DOMAIN Conns : \A e \in EdgesOf(Conns[k]) :
        entrances[e].access_rule = build_rule_from_requirements(Conns[k].requirements, FALSE)

\* C8 (as stated): after set_all_entrance_rules, the edge of every declared
\* connection that has one carries the AND-mode compilation of that
\* connection's own tree; connections without an edge are skipped and leave
\* the other bindings as they are.
C8_EntranceBindingAsStated ==
    pc = "rules_set" => EachEdgeHasItsOwnRule

\* C8 (amended): the same provided no two declared connections yield the same
\* edge name.
C8_EntranceBindingForDistinctEdgeNames ==
    (pc = "rules_set" /\ EdgeNamesDistinct) => EachEdgeHasItsOwnRule

\* C8 witness: rules were bound on a partly wired graph: one connection has no
\* edge and was skipped, two have edges and carry the rules of their own,
\* different, trees
C8_Witness ==
    /\ pc = "rules_set" /\ EdgeNamesDistinct
    /\ Len(Conns) = 3 /\ Len(entrances) = 2
    /\ entrances[1].access_rule.kind = "rule_function"
    /\ entrances[2].access_rule.kind = "lambda_true"

-----------------------------------------------------------------------------
(* Specification SpecLocations: set_all_location_rules on one location table *)

\* most locations in the location table
MaxLocations == 2

\* the location names the tables use, in the order the tables list them
LocationNames == <<"L1", "L2", "L3">>

\* the tag lists the locations use
TagSets == {{}, {"Supplier"}, {"Customer"}, {"Dealer"}, {"Property"},
            {"Property", "Supplier"}}

\* json_data.py:29-35   LocationData
LocationData(n, r, t) == [name |-> n, requirements |-> r, tags |-> t]

LocationInit ==
    /\ pc = "init"
    /\ \E on \in BOOLEAN : options = [AllOff EXCEPT !["randomize_suppliers"] = on]
    /\ state = EmptyState(Items)
    /\ result = NoResult
    /\ \E idx \in {Sorted(S) : S \in {T \in SUBSET DOMAIN LocationNames :
                                           Cardinality(T) <= MaxLocations}} :
          /\ location_data \in
                {[i \in DOMAIN idx |->
                     LocationData(LocationNames[idx[i]], f[i][1], f[i][2])] :
                 f \in [DOMAIN idx -> ConnTrees \X TagSets]}
          /\ world_locations \in SUBSET {LocationNames[idx[i]] : i \in DOMAIN idx}
    /\ location_rules = <<>>
    /\ CheckIdle /\ CompileIdle /\ GraphIdle /\ GoalIdle

\* mutant: the toggle is read negated
SkipsLocation_inverted(opts, tags) ==
    ~opts["randomize_suppliers"] /\ "Supplier" \in tags

\* rules.py:163   world.options.randomize_suppliers and "Supplier" in loc_data.tags
SkipsLocation(opts, tags) ==
    opts["randomize_suppliers"] /\ "Supplier" \in tags

\* mutant: "Dealer" is missing from the list
UseOrLogic_no_dealer(tags) == \E tag \in {"Customer", "Supplier"} : tag \in tags

\* rules.py:182   any(tag in tags for tag in ["Customer", "Dealer", "Supplier"])
UseOrLogic(tags) == \E tag \in {"Customer", "Dealer", "Supplier"} : tag \in tags

\* rules.py:155-185   set_all_location_rules
SetAllLocationRules ==
    /\ pc = "init"
    /\ \E locations_dict \in
             {{location_data[i].name : i \in
                 {j \in DOMAIN location_data :
                     /\ ~SkipsLocation(options, location_data[j].tags)
                     /\ location_data[j].name \in world_locations}}} :
       \E new \in {[i \in DOMAIN location_data |->
                      build_rule_from_requirements(location_data[i].requirements,
                                                   UseOrLogic(location_data[i].tags))]} :
       \E raises \in {{i \in DOMAIN location_data :
                         location_data[i].name \in locations_dict /\ RuleIsRaised(new[i])}} :
       \E first \in {IF raises = {} THEN Len(location_data) + 1
                      ELSE CHOOSE i \in raises : \A j \in raises : i <= j} :
       \E set \in {{i \in 1..(first - 1) : location_data[i].name \in locations_dict}} :
          /\ location_rules' =
                [n \in {location_data[i].name : i \in set} |->
                    new[CHOOSE i \in set : location_data[i].name = n]]
          /\ pc' = IF raises = {} THEN "rules_set" ELSE "rules_raised"
    /\ UNCHANGED <<options, state, result, location_data, world_locations,
                   checkVars, compileVars, graphVars, goalVars>>

\* location.access_rule(state) of a location that was given a rule
CallLocationRule ==
    /\ pc = "rules_set"
    /\ \E n \in DOMAIN location_rules :
          result' = CallOf(location_rules[n], options, state)
    /\ UNCHANGED <<pc, options, state, location_data, world_locations, location_rules,
                   checkVars, compileVars, graphVars, goalVars>>

LocationNext == SetAllLocationRules \/ CallLocationRule

SpecLocations == LocationInit /\ [][LocationNext]_vars

-----------------------------------------------------------------------------
(* Claims checked under SpecLocations *)

Bound == DOMAIN location_rules
LocationRulesSet == pc = "rules_set"

\* C7: after set_all_location_rules, a location tagged Supplier has no rule
\* when randomize_suppliers is enabled and has one when it is disabled and the
\* host knows the location; a location without the tag has a rule exactly when
\* the host knows it, whatever the toggle.
C7_SupplierLocationsFiltered ==
    /\ \A i \in DOMAIN location_data :
          ("Supplier" \in location_data[i].tags /\ options["randomize_suppliers"])
              => location_data[i].name \notin Bound
    /\ LocationRulesSet =>
          \A i \in DOMAIN location_data :
              /\ ("Supplier" \in location_data[i].tags /\ ~options["randomize_suppliers"]
                     /\ location_data[i].name \in world_locations)
                    => location_data[i].name \in Bound
              /\ "Supplier" \notin location_data[i].tags
                    => (location_data[i].name \in Bound
                          <=> location_data[i].name \in world_locations)

\* C7 witness: with the toggle enabled, rules were set for a table holding a
\* Supplier location the host knows, which got none, and another location,
\* which got one
C7_Witness ==
    /\ LocationRulesSet /\ options["randomize_suppliers"]
    /\ \E i, j \in DOMAIN location_data :
          /\ "Supplier" \in location_data[i].tags
          /\ location_data[i].name \in world_locations
          /\ location_data[i].name \notin Bound
          /\ "Supplier" \notin location_data[j].tags
          /\ location_data[j].name \in Bound

\* whether the tag set meets {Customer, Dealer, Supplier}
NpcTagged(tags) == tags \cap {"Customer", "Dealer", "Supplier"} # {}

\* C9: every location given a rule by set_all_location_rules carries the
\* compilation of its own tree, in OR mode iff its tag set meets
\* {Customer, Dealer, Supplier} and in AND mode otherwise.
C9_LocationCombinator ==
    \A i \in DOMAIN location_data :
        location_data[i].name \in Bound =>
            LET r == location_rules[location_data[i].name]
            IN  /\ r = build_rule_from_requirements(location_data[i].requirements,
                                                   NpcTagged(location_data[i].tags))
                /\ r.kind = "rule_function" =>
                      (r.use_or_logic <=> NpcTagged(location_data[i].tags))

\* C9 witness: rules were set for a Dealer location, compiled in OR mode, and
\* for a location with no such tag, compiled in AND mode
C9_Witness ==
    /\ LocationRulesSet
    /\ \E i, j \in DOMAIN location_data :
          /\ location_data[i].tags = {"Dealer"}
          /\ location_data[i].name \in Bound
          /\ location_rules[location_data[i].name].kind = "rule_function"
          /\ location_rules[location_data[i].name].use_or_logic
          /\ location_data[j].tags = {"Property"}
          /\ location_data[j].name \in Bound
          /\ location_rules[location_data[j].name].kind = "rule_function"
          /\ ~location_rules[location_data[j].name].use_or_logic

-----------------------------------------------------------------------------
(* Specification SpecGoal: set_completion_condition for one goal value, then *)
(* calls of the registered condition while the goal items are collected      *)

\* largest goal value the configuration is given
MaxGoal == 3

\* the completion condition: the host's default, or one of the three lambdas
Completion(f, i) == [fn |-> f, items |-> i]
DefaultCompletion == Completion("default", <<>>)

GoalInit ==
    /\ pc = "init"
    /\ options = AllOff
    /\ state = EmptyState(GoalItems)
    /\ result = NoResult
    /\ goal \in 0..MaxGoal
    /\ completion = DefaultCompletion
    /\ CheckIdle /\ CompileIdle /\ GraphIdle /\ LocationIdle

\* rules.py:188-199   set_completion_condition: no branch for other goal
\* values, the function returns and the registry keeps what it held
SetCompletionCondition ==
    /\ pc = "init"
    /\ completion' =
          IF goal = 0 THEN Completion("has_all", <<"Cartel Defeated", "Networth Goal Reached">>)
          ELSE IF goal = 1 THEN Completion("has", <<"Networth Goal Reached">>)
          ELSE IF goal = 2 THEN Completion("has", <<"Cartel Defeated">>)
          ELSE completion
    /\ pc' = "returned"
    /\ UNCHANGED <<options, state, result, goal, checkVars, compileVars, graphVars,
                   locationVars>>

\* world.multiworld.completion_condition[world.player](state)
CallCompletion ==
    /\ pc = "returned"
    /\ result' = [called |-> TRUE,
                  value |-> CASE completion.fn = "has_all" -> has_all(state, completion.items)
                              [] completion.fn = "has" -> has(state, completion.items[1])
                              [] OTHER -> TRUE,
                  calls |-> {}]
    /\ UNCHANGED <<pc, options, state, goal, completion, checkVars, compileVars,
                   graphVars, locationVars>>

GoalNext == SetCompletionCondition \/ CallCompletion \/ Collect

SpecGoal == GoalInit /\ [][GoalNext]_vars

-----------------------------------------------------------------------------
(* Claims checked under SpecGoal *)

\* C6 (as stated): the registered condition is true iff the holder owns both
\* goal items (goal 0), "Networth Goal Reached" (goal 1), "Cartel Defeated"
\* (goal 2); for a goal outside {0, 1, 2} the call is rejected with an error
\* and registers nothing.
C6_CompletionSelector ==
    pc # "init" =>
        /\ goal \notin {0, 1, 2} => pc = "rejected" /\ completion = DefaultCompletion
        /\ (goal \in {0, 1, 2} /\ result.called) =>
              result.value =
                  CASE goal = 0 -> Owns(state, "Cartel Defeated")
                                      /\ Owns(state, "Networth Goal Reached")
                    [] goal = 1 -> Owns(state, "Networth Goal Reached")
                    [] goal = 2 -> Owns(state, "Cartel Defeated")

\* for goals 0, 1 and 2 the registered condition is the one C6 states
C6_ValidGoalsSelected ==
    (pc # "init" /\ goal \in {0, 1, 2} /\ result.called) =>
        result.value =
            CASE goal = 0 -> Owns(state, "Cartel Defeated")
                                /\ Owns(state, "Networth Goal Reached")
              [] goal = 1 -> Owns(state, "Networth Goal Reached")
              [] goal = 2 -> Owns(state, "Cartel Defeated")

=============================================================================
